---- MODULE Spec2Model ----
(***************************************************************************)
(* Model of the microflack messages service (src/app.py): the Message      *)
(* record, the markdown renderer, the link expander, the render_message    *)
(* pipeline, the after_update notification hook, the create/edit request  *)
(* handlers and the listing of messages.                                   *)
(*                                                                         *)
(* Markup is a sequence of tokens rather than a character string: one      *)
(* token per text run, inline element, anchor or appended summary block.   *)
(* Text values are strings; strip() and lower() are tabulated on the       *)
(* finite set of strings the model uses.                                   *)
(***************************************************************************)
EXTENDS Integers, Sequences, FiniteSets, TLC

(***************************************************************************)
(* Bounds of the model.                                                    *)
(***************************************************************************)
\* messages that can be created
MaxMsgs == 2
\* requests that start a pipeline run (create + edit)
MaxRuns == 2
\* calls of expand_links in the enricher-only specification
MaxCalls == 2

(***************************************************************************)
(* Text helpers.                                                           *)
(***************************************************************************)
\* title_tags[0].string of an empty <title></title> is None
NoString == "<None>"
\* a <meta> without the attribute asked for
NoAttr == "<absent>"

\* str.strip(), tabulated on the strings pages carry
Strip(s) ==
  CASE s = " foo "       -> "foo"
    [] s = "foo descr\n" -> "foo descr"
    [] s = " "           -> ""
    [] OTHER             -> s

\* str.lower(), tabulated on the meta names pages carry
Lower(s) ==
  CASE s = "Description" -> "description"
    [] s = "DESCRIPTION" -> "description"
    [] s = "Blah"        -> "blah"
    [] OTHER             -> s

(***************************************************************************)
(* Markdown sources: a sequence of source tokens [k, v, t].                *)
(*   text   plain text v                                                   *)
(*   em     *v*                                                            *)
(*   url    a bare URL v                                                   *)
(*   domain a bare domain name v (foo.com)                                 *)
(*   link   [t](v)                                                         *)
(*   quote  "> v", which markdown turns into <blockquote><p>v</p>...       *)
(*   raw    inline HTML <t>v</t>, which markdown passes through            *)
(***************************************************************************)
Src(k, v, t) == [k |-> k, v |-> v, t |-> t]

FooUrl == "http://foo.com"
BarUrl == "http://bar.com"
MailUrl == "mailto:a@foo.com"

\* "hello *world*!"
SrcPlain == << Src("text", "hello ", ""), Src("em", "world", ""), Src("text", "!", "") >>
\* "hello http://foo.com!"
SrcUrl == << Src("text", "hello ", ""), Src("url", FooUrl, ""), Src("text", "!", "") >>
\* "hello foo.com!"
SrcDomain == << Src("text", "hello ", ""), Src("domain", "foo.com", ""), Src("text", "!", "") >>
\* "http://foo.com [mail](mailto:a@foo.com)"
SrcMail == << Src("url", FooUrl, ""), Src("text", " ", ""), Src("link", MailUrl, "mail") >>
\* "http://foo.com http://bar.com http://foo.com"
SrcThree == << Src("url", FooUrl, ""), Src("url", BarUrl, ""), Src("url", FooUrl, "") >>
\* "> hello"
SrcQuote == << Src("quote", "hello", "") >>

(***************************************************************************)
(* Markup tokens [tag, href, rel, text, desc].                             *)
(***************************************************************************)
Tok(tag, href, rel, text, desc) ==
  [tag |-> tag, href |-> href, rel |-> rel, text |-> text, desc |-> desc]

TextTok(s) == Tok("#text", "", "", s, "")

\* new_message: msg.html = '...'
Placeholder == << TextTok("...") >>

\* bleach.linkify: the href it gives a bare domain
HrefOfDomain(d) == IF d = "foo.com" THEN FooUrl ELSE IF d = "bar.com" THEN BarUrl ELSE d

allowed_tags == {"a", "abbr", "acronym", "b", "code", "em", "i", "strong"}

\* markdown(): the element one source token becomes
MarkdownTok(s) ==
  CASE s.k = "em"     -> Tok("em", "", "", s.v, "")
    [] s.k = "link"   -> Tok("a", s.v, "", s.t, "")
    [] s.k = "quote"  -> Tok("blockquote", "", "", s.v, "")
    [] s.k = "raw"    -> Tok(s.t, "", "", s.v, "")
    [] OTHER          -> TextTok(s.v)

CleanNothing(t) == t

\* bleach.clean(tags=allowed_tags, strip=True): a disallowed element is
\* replaced by its text
Clean(t) ==
  IF t.tag = "#text" \/ t.tag \in allowed_tags THEN t ELSE TextTok(t.text)

\* str.startswith('mailto:'), tabulated on the hrefs sources carry
IsMailto(href) == href = MailUrl

\* bleach.linkify with its default callback (nofollow): bare URLs and
\* domains become anchors; every anchor gets rel="nofollow", except that the
\* callback leaves an anchor whose href starts with mailto: as it is
Linkify(s, t) ==
  CASE s.k = "url"    -> Tok("a", s.v, "nofollow", s.v, "")
    [] s.k = "domain" -> Tok("a", HrefOfDomain(s.v), "nofollow", s.v, "")
    [] t.tag = "a" /\ ~IsMailto(t.href) -> [t EXCEPT !.rel = "nofollow"]
    [] OTHER          -> t

\* Message.render_markdown: the html of a source
render_markdown(source) ==
  [i \in 1..Len(source) |-> Linkify(source[i], Clean(MarkdownTok(source[i])))]

(***************************************************************************)
(* Remote sites.  A site answers a GET with a response (a status and, for  *)
(* 200, a page), refuses the connection, or accepts it and never answers.  *)
(* A page is the sequence of its <title> strings and of its <meta> tags.   *)
(***************************************************************************)
Meta(name, content) == [name |-> name, content |-> content]
Page(titles, metas) == [titles |-> titles, metas |-> metas]
NoPage == Page(<< >>, << >>)

\* tests.py responses(): title and description, with the padding and the
\* capitals that strip() and lower() are there for
PageFoo == Page(<< " foo " >>, << Meta("Blah", "blah"), Meta("Description", "foo descr\n") >>)
\* a title and no <meta>
PageBar == Page(<< "bar" >>, << >>)
\* no title, a description
PageBaz == Page(<< >>, << Meta("description", "baz descr") >>)
\* <title></title>: BeautifulSoup gives .string = None
PageNoText == Page(<< NoString >>, << >>)
\* a page whose title and description are text that reads as markup:
\* <title>&lt;script&gt;alert(1)&lt;/script&gt;</title> has the .string
\* "<script>alert(1)</script>"
PageScript == Page(<< "<script>alert(1)</script>" >>,
    << Meta("description", "<img src=x onerror=alert(1)>") >>)
\* two titles; a nameless <meta>, a description without content, a second
\* description
PageTwo == Page(<< "t1", "t2" >>,
    << Meta(NoAttr, "x"), Meta("DESCRIPTION", NoAttr), Meta("description", "second") >>)

Resp(kind, status, page) == [kind |-> kind, status |-> status, page |-> page]
Ok200(page) == Resp("resp", 200, page)
NotFound == Resp("resp", 404, NoPage)
\* requests.exceptions.ConnectionError
ConnErr == Resp("connerr", 0, NoPage)
\* the site accepts the connection and never responds
Hang == Resp("hang", 0, NoPage)
\* any other exception of requests.get (InvalidSchema, MissingSchema)
OtherExc == Resp("exc", 0, NoPage)

\* requests.get(url) against the sites st: an href that is no http URL (a
\* mailto: link, an empty href) has no connection adapter and raises
HttpUrls == {FooUrl, BarUrl}
Get(url, st) == IF url \in HttpUrls THEN st[url] ELSE OtherExc

(***************************************************************************)
(* Message.expand_links                                                    *)
(***************************************************************************)
\* '<blockquote>' in self.html
HasSentinelNever(html) == FALSE
HasSentinel(html) == \E i \in 1..Len(html) : html[i].tag = "blockquote"

RECURSIVE HrefsFrom(_, _)
HrefsFrom(html, i) ==
  IF i > Len(html) THEN << >>
  ELSE IF html[i].tag = "a" THEN << html[i].href >> \o HrefsFrom(html, i + 1)
  ELSE HrefsFrom(html, i + 1)

\* [link.get('href', '') for link in BeautifulSoup(html).select('a')]
Anchors(html) == HrefsFrom(html, 1)

\* title_tags[0].string.strip() raises AttributeError when .string is None
TitleRaises(page) == Len(page.titles) > 0 /\ page.titles[1] = NoString

Title(page, url) ==
  IF Len(page.titles) > 0 THEN Strip(page.titles[1]) ELSE url

NoDescription == "No description found."

\* for meta in soup.select('meta'): ... break
RECURSIVE DescriptionFrom(_, _)
DescriptionFrom(metas, i) ==
  IF i > Len(metas) THEN NoDescription
  ELSE IF Lower(IF metas[i].name = NoAttr THEN "" ELSE metas[i].name) = "description"
       THEN Strip(IF metas[i].content = NoAttr THEN NoDescription ELSE metas[i].content)
       ELSE DescriptionFrom(metas, i + 1)

Description(page) == DescriptionFrom(page.metas, 1)

\* tpl.format(url=url, title=title, desc=description)
Block(url, title, desc) == Tok("blockquote", url, "", title, desc)

\* one turn of the for loop: the state [st, html, changed] after the link
\* url.  st: "next" (go on), "raise" (an exception leaves expand_links),
\* "hang" (requests.get never returns)
LinkStep(html, changed, url, st) ==
  LET rv == Get(url, st) IN
  CASE rv.kind = "exc"     -> [st |-> "raise", html |-> html, changed |-> changed]
    [] rv.kind = "hang"    -> [st |-> "hang", html |-> html, changed |-> changed]
    [] rv.kind = "connerr" -> [st |-> "next", html |-> html, changed |-> changed]
    [] rv.status # 200     -> [st |-> "next", html |-> html, changed |-> changed]
    [] TitleRaises(rv.page) -> [st |-> "raise", html |-> html, changed |-> changed]
    [] OTHER ->
         [st |-> "next", changed |-> TRUE,
          html |-> Append(html, Block(url, Title(rv.page, url), Description(rv.page)))]

\* the for loop over links from link i on; acc = [st, html, changed, got],
\* got the responses of the requests made so far
RECURSIVE ExpandFrom(_, _, _, _)
ExpandFrom(links, i, acc, st) ==
  IF i > Len(links) THEN [acc EXCEPT !.st = "ret"]
  ELSE LET n == LinkStep(acc.html, acc.changed, links[i], st)
           a == [st |-> n.st, html |-> n.html, changed |-> n.changed,
                 got |-> Append(acc.got, Get(links[i], st))]
       IN  IF n.st = "next" THEN ExpandFrom(links, i + 1, a, st) ELSE a

\* a whole call: [st, html, changed, got] with st "ret" (returned changed),
\* "raise" or "hang"; html is self.html as the call leaves it
expand_links(html, st) ==
  IF HasSentinel(html)
  THEN [st |-> "ret", html |-> html, changed |-> FALSE, got |-> << >>]
  ELSE ExpandFrom(Anchors(html), 1,
                  [st |-> "next", html |-> html, changed |-> FALSE, got |-> << >>], st)

(***************************************************************************)
(* State.                                                                  *)
(*   store     the messages table: id -> row                               *)
(*   nextId    the next primary key                                        *)
(*   runs      the render_message calls started so far, each with the      *)
(*             position it has reached and its session's copy of the row   *)
(*   site      what each remote site answers                               *)
(*   socketio  "none" (no REDIS: socketio = None), "up", or "down" (emit   *)
(*             raises)                                                     *)
(*   TESTING   app.config['TESTING']: render inline or on a thread         *)
(*   response  the status code of the response the step sends: what the    *)
(*             handler aborts with or returns (0: the step is not a        *)
(*             request)                                                    *)
(*   ehtml, calls   a message's html and the expand_links calls made on    *)
(*             it (enricher-only specification)                            *)
(*   md        the render_markdown calls made (renderer-only               *)
(*             specification)                                              *)
(*   now, rows, listed   the clock, the updated_at column of the messages  *)
(*             table and the answers of get_messages (listing-only         *)
(*             specification)                                              *)
(***************************************************************************)
VARIABLES store, nextId, runs, site, socketio, TESTING, response, ehtml, calls,
          md, now, rows, listed

\* the state of the renderer-only and listing-only specifications
aux == << md, now, rows, listed >>

vars == << store, nextId, runs, site, socketio, TESTING, response, ehtml, calls, aux >>

Users == {1, 2}
\* tests.py: user 1 posts the messages, user 2 tries to edit one
Authors == {1}
MsgIds == 1..MaxMsgs

\* the sources requests carry
Sources == {SrcPlain, SrcUrl, SrcMail}

\* a row of the messages table (live = FALSE: no such row)
Msg(source, html, user) == [live |-> TRUE, source |-> source, html |-> html, user_id |-> user]
NoMsg == [live |-> FALSE, source |-> << >>, html |-> << >>, user_id |-> 0]

\* a render_message call that has not started.  source, html: the session's
\* copy of the row (source as loaded by query.get, the one the run renders
\* and reports; html as last read or set).  req: the source the request left
\* in the row; kind: the request ("create", "edit", "edit_nosource");
\* reqEmits: the emit calls of the request's own commit.  enriched0, emits,
\* writes, fetches and err record what the run did: whether the html it
\* found had summary blocks, its emit calls, its UPDATEs, its GETs and the
\* exception that ended it ("": none).
NewRun(id, kind, req, reqEmits) ==
  [id |-> id, pc |-> "start", source |-> << >>, html |-> << >>,
   changed |-> FALSE, kind |-> kind, req |-> req, reqEmits |-> reqEmits,
   enriched0 |-> FALSE, emits |-> 0, writes |-> 0, fetches |-> 0, err |-> ""]

Finished(r) == r.pc \in {"done", "noop", "raised"}

\* with TESTING the request runs render_message itself and returns after it:
\* the next request of the sequence comes after the run
Idle == TESTING => \A i \in 1..Len(runs) : Finished(runs[i])

\* what the sites of the pipeline specification answer
MainSites ==
  {[u \in HttpUrls |-> IF u = FooUrl THEN b ELSE ConnErr] :
     b \in {Ok200(PageFoo), ConnErr, Hang}}

EmptyStore == [m \in MsgIds |-> NoMsg]

Init ==
  /\ store = EmptyStore
  /\ nextId = 1
  /\ runs = << >>
  /\ site \in MainSites
  /\ socketio \in {"none", "up", "down"}
  \* one fault of the environment at a time
  /\ socketio = "up" \/ site[FooUrl] = Ok200(PageFoo)
  /\ TESTING \in BOOLEAN
  /\ response = 0
  /\ ehtml = << >>
  /\ calls = << >>
  /\ md = << >> /\ now = 0 /\ rows = << >> /\ listed = << >>

(***************************************************************************)
(* The after_update hook.  SQLAlchemy calls it in the flush of a commit    *)
(* for every instance with an attribute set since the last flush, after    *)
(* the UPDATE statement and before the transaction commits; an exception   *)
(* of the hook leaves the commit and the transaction is rolled back.       *)
(***************************************************************************)
after_user_update_unguarded(sio) == 1

\* if socketio: socketio.emit('updated_model', ...): the emit calls made
after_user_update(sio) == IF sio = "none" THEN 0 ELSE 1

\* socketio.emit raises (the message queue cannot be reached)
EmitRaises(sio) == sio = "down"

(***************************************************************************)
(* Requests.                                                               *)
(***************************************************************************)
\* POST /api/messages by user u with a body that has a source
new_message(u, src) ==
  /\ Idle
  /\ nextId <= MaxMsgs
  /\ Len(runs) < MaxRuns
  /\ store' = [store EXCEPT ![nextId] = Msg(src, Placeholder, u)]
  /\ nextId' = nextId + 1
  /\ runs' = Append(runs, NewRun(nextId, "create", src, 0))
  /\ response' = 201
  /\ UNCHANGED << site, socketio, TESTING, ehtml, calls, aux >>

new_message_400_stored ==
  /\ Idle
  /\ nextId <= MaxMsgs
  /\ store' = [store EXCEPT ![nextId] = Msg(<< >>, Placeholder, 1)]
  /\ nextId' = nextId + 1
  /\ response' = 400
  /\ UNCHANGED << runs, site, socketio, TESTING, ehtml, calls, aux >>

\* POST /api/messages with a body without 'source': from_dict aborts with 400
new_message_400 ==
  /\ Idle
  /\ response' = 400
  /\ UNCHANGED << store, nextId, runs, site, socketio, TESTING, ehtml, calls, aux >>

\* POST /api/messages with a body that is no JSON object (null, a list):
\* data[field] raises TypeError, which from_dict does not catch
new_message_500 ==
  /\ Idle
  /\ response' = 500
  /\ UNCHANGED << store, nextId, runs, site, socketio, TESTING, ehtml, calls, aux >>

edit_message_rejected_late(id, u) ==
  /\ Idle
  /\ ~store[id].live \/ store[id].user_id # u
  /\ response' = IF ~store[id].live THEN 404 ELSE 403
  /\ store' = IF store[id].live THEN [store EXCEPT ![id].source = SrcPlain] ELSE store
  /\ UNCHANGED << nextId, runs, site, socketio, TESTING, ehtml, calls, aux >>

\* PUT /api/messages/<id> that get_or_404 or the owner check turns down
edit_message_rejected(id, u) ==
  /\ Idle
  /\ ~store[id].live \/ store[id].user_id # u
  /\ response' = IF ~store[id].live THEN 404 ELSE 403
  /\ UNCHANGED << store, nextId, runs, site, socketio, TESTING, ehtml, calls, aux >>

\* PUT /api/messages/<id> by the owner with a body that has a source: the
\* commit updates source and calls the hook, then the run is started
edit_message(id, u, src) ==
  /\ Idle
  /\ Len(runs) < MaxRuns
  /\ store[id].live /\ store[id].user_id = u
  /\ IF EmitRaises(socketio)
     THEN UNCHANGED << store, runs >>
     ELSE /\ store' = [store EXCEPT ![id].source = src]
          /\ runs' = Append(runs, NewRun(id, "edit", src, after_user_update(socketio)))
  /\ response' = IF EmitRaises(socketio) THEN 500 ELSE 204
  /\ UNCHANGED << nextId, site, socketio, TESTING, ehtml, calls, aux >>

\* PUT by the owner with a body without 'source' (partial update): nothing
\* is set, the commit flushes nothing, the run is started all the same
edit_message_nosource(id, u) ==
  /\ Idle
  /\ Len(runs) < MaxRuns
  /\ store[id].live /\ store[id].user_id = u
  /\ runs' = Append(runs, NewRun(id, "edit_nosource", store[id].source, 0))
  /\ response' = 204
  /\ UNCHANGED << store, nextId, site, socketio, TESTING, ehtml, calls, aux >>

\* the row is removed at the store (db.drop_all in tests.py; the service has
\* no delete endpoint)
delete_row(id) ==
  /\ store[id].live
  /\ store' = [store EXCEPT ![id] = NoMsg]
  /\ response' = 0
  /\ UNCHANGED << nextId, runs, site, socketio, TESTING, ehtml, calls, aux >>

(***************************************************************************)
(* render_message(id), step by step.                                       *)
(***************************************************************************)
LoadUnchecked(i) ==
  LET r == runs[i] IN
  /\ r.pc = "start"
  /\ runs' = [runs EXCEPT ![i] =
       [r EXCEPT !.pc = "render", !.source = store[r.id].source,
                 !.html = store[r.id].html,
                 !.enriched0 = HasSentinel(store[r.id].html)]]
  /\ response' = 0
  /\ UNCHANGED << store, nextId, site, socketio, TESTING, ehtml, calls, aux >>

\* msg = Message.query.get(id); if not msg: return
Load(i) ==
  LET r == runs[i] IN
  /\ r.pc = "start"
  /\ runs' = [runs EXCEPT ![i] =
       IF store[r.id].live
       THEN [r EXCEPT !.pc = "render", !.source = store[r.id].source,
                      !.html = store[r.id].html,
                      !.enriched0 = HasSentinel(store[r.id].html)]
       ELSE [r EXCEPT !.pc = "noop"]]
  /\ response' = 0
  /\ UNCHANGED << store, nextId, site, socketio, TESTING, ehtml, calls, aux >>

RenderCommitAll(i) ==
  LET r == runs[i]
      h == render_markdown(r.source)
      net == h # r.html
  IN
  /\ r.pc = "render"
  /\ IF net /\ ~store[r.id].live
     THEN /\ runs' = [runs EXCEPT ![i] = [r EXCEPT !.pc = "raised", !.html = h,
                                                   !.err = "StaleDataError"]]
          /\ UNCHANGED store
     ELSE IF EmitRaises(socketio)
     THEN /\ runs' = [runs EXCEPT ![i] = [r EXCEPT !.pc = "raised", !.html = h,
                          !.err = "emit", !.emits = @ + after_user_update(socketio)]]
          /\ UNCHANGED store
     ELSE /\ store' = IF net THEN [m \in MsgIds |-> IF store[m].live THEN [store[m] EXCEPT !.html = h]
                                                  ELSE store[m]]
                    ELSE store
          /\ runs' = [runs EXCEPT ![i] = [r EXCEPT !.pc = "expand", !.html = h,
                          !.emits = @ + after_user_update(socketio),
                          !.writes = @ + (IF net THEN 1 ELSE 0)]]
  /\ response' = 0
  /\ UNCHANGED << nextId, site, socketio, TESTING, ehtml, calls, aux >>

\* msg.render_markdown(); db.session.commit().  The UPDATE is issued only
\* for a net change and fails (StaleDataError) when the row is gone.
RenderCommit(i) ==
  LET r == runs[i]
      h == render_markdown(r.source)
      net == h # r.html
  IN
  /\ r.pc = "render"
  /\ IF net /\ ~store[r.id].live
     THEN /\ runs' = [runs EXCEPT ![i] = [r EXCEPT !.pc = "raised", !.html = h,
                                                   !.err = "StaleDataError"]]
          /\ UNCHANGED store
     ELSE IF EmitRaises(socketio)
     THEN /\ runs' = [runs EXCEPT ![i] = [r EXCEPT !.pc = "raised", !.html = h,
                          !.err = "emit", !.emits = @ + after_user_update(socketio)]]
          /\ UNCHANGED store
     ELSE /\ store' = IF net THEN [store EXCEPT ![r.id].html = h] ELSE store
          /\ runs' = [runs EXCEPT ![i] = [r EXCEPT !.pc = "expand", !.html = h,
                          !.emits = @ + after_user_update(socketio),
                          !.writes = @ + (IF net THEN 1 ELSE 0)]]
  /\ response' = 0
  /\ UNCHANGED << nextId, site, socketio, TESTING, ehtml, calls, aux >>

\* msg.expand_links().  The commit expired the instance, so reading
\* self.html loads the row again (ObjectDeletedError when it is gone); the
\* sites do not change while the call runs.
Expand(i) ==
  LET r == runs[i]
      row == store[r.id]
      e == expand_links(row.html, site)
  IN
  /\ r.pc = "expand"
  /\ runs' = [runs EXCEPT ![i] =
       IF ~row.live THEN [r EXCEPT !.pc = "raised", !.err = "ObjectDeletedError"]
       ELSE [r EXCEPT !.html = e.html, !.changed = e.changed,
                      !.fetches = @ + Len(e.got),
                      !.err = IF e.st = "raise" THEN "fetch" ELSE "",
                      !.pc = CASE e.st = "raise" -> "raised"
                               [] e.st = "hang" -> "hung"
                               [] e.changed -> "commit2"
                               [] OTHER -> "done"]]
  /\ response' = 0
  /\ UNCHANGED << store, nextId, site, socketio, TESTING, ehtml, calls, aux >>

\* if msg.expand_links(): db.session.commit()
Commit2(i) ==
  LET r == runs[i] IN
  /\ r.pc = "commit2"
  /\ IF ~store[r.id].live
     THEN /\ runs' = [runs EXCEPT ![i] = [r EXCEPT !.pc = "raised",
                                                   !.err = "StaleDataError"]]
          /\ UNCHANGED store
     ELSE IF EmitRaises(socketio)
     THEN /\ runs' = [runs EXCEPT ![i] = [r EXCEPT !.pc = "raised", !.err = "emit",
                                                   !.emits = @ + after_user_update(socketio)]]
          /\ UNCHANGED store
     ELSE /\ store' = [store EXCEPT ![r.id].html = r.html]
          /\ runs' = [runs EXCEPT ![i] = [r EXCEPT !.pc = "done",
                          !.emits = @ + after_user_update(socketio), !.writes = @ + 1]]
  /\ response' = 0
  /\ UNCHANGED << nextId, site, socketio, TESTING, ehtml, calls, aux >>

Step(i) == Load(i) \/ RenderCommit(i) \/ Expand(i) \/ Commit2(i)

Next ==
  \/ \E u \in Authors, src \in Sources : new_message(u, src)
  \/ new_message_400
  \/ new_message_500
  \/ \E id \in MsgIds, u \in Users : edit_message_rejected(id, u)
  \/ \E id \in MsgIds, u \in Users, src \in Sources : edit_message(id, u, src)
  \/ \E id \in MsgIds, u \in Users : edit_message_nosource(id, u)
  \/ \E id \in MsgIds : delete_row(id)
  \/ \E i \in 1..Len(runs) : Load(i)
  \/ \E i \in 1..Len(runs) : RenderCommit(i)
  \/ \E i \in 1..Len(runs) : Expand(i)
  \/ \E i \in 1..Len(runs) : Commit2(i)

Spec == Init /\ [][Next]_vars

\* a thread that can take a step takes it
FairSpec == Spec /\ \A i \in 1..MaxRuns : WF_vars(i <= Len(runs) /\ Step(i))

(***************************************************************************)
(* The enricher alone: expand_links called up to MaxCalls times on one     *)
(* message's html while the sites change between the calls.                *)
(***************************************************************************)
EnrichSources == {SrcPlain, SrcUrl, SrcDomain, SrcMail, SrcThree, SrcQuote}

FooAnswers ==
  {Ok200(PageFoo), Ok200(PageBaz), Ok200(PageNoText), Ok200(PageTwo), Ok200(PageScript),
   NotFound, ConnErr, Hang}
BarAnswers == {Ok200(PageBar), Ok200(PageTwo), NotFound, ConnErr}

EnrichSites ==
  {st \in [HttpUrls -> FooAnswers \cup BarAnswers] :
     st[FooUrl] \in FooAnswers /\ st[BarUrl] \in BarAnswers}

InitEnrich ==
  /\ store = EmptyStore
  /\ nextId = 1
  /\ runs = << >>
  /\ socketio = "up"
  /\ TESTING = FALSE
  /\ response = 0
  /\ md = << >> /\ now = 0 /\ rows = << >> /\ listed = << >>
  /\ site \in EnrichSites
  /\ ehtml \in {render_markdown(src) : src \in EnrichSources}
  /\ calls = << >>

\* a call that hangs never returns: nothing is called after it
CanCall ==
  /\ Len(calls) < MaxCalls
  /\ IF calls = << >> THEN TRUE ELSE calls[Len(calls)].st # "hang"

\* changed = msg.expand_links()
CallExpand ==
  LET e == expand_links(ehtml, site) IN
  /\ CanCall
  /\ ehtml' = e.html
  /\ calls' = Append(calls, [before |-> ehtml, site |-> site, st |-> e.st,
                             html |-> e.html, changed |-> e.changed, got |-> e.got])
  /\ UNCHANGED << store, nextId, runs, site, socketio, TESTING, response, aux >>

\* a site answers differently from now on
SiteChange(u, b) ==
  /\ calls # << >> /\ CanCall
  /\ b # site[u]
  /\ site' = [site EXCEPT ![u] = b]
  /\ UNCHANGED << store, nextId, runs, socketio, TESTING, response, ehtml, calls, aux >>

NextEnrich ==
  \/ CallExpand
  \/ \E b \in FooAnswers : SiteChange(FooUrl, b)
  \/ \E b \in BarAnswers : SiteChange(BarUrl, b)

SpecEnrich == InitEnrich /\ [][NextEnrich]_vars

(***************************************************************************)
(* The renderer alone: render_markdown called on one source after another. *)
(***************************************************************************)
\* tokens of a source
MaxLen == 3

\* the tokens sources are made of
SrcToks ==
  { Src("em", "world", ""), Src("url", FooUrl, ""),
    Src("link", BarUrl, "bar"), Src("link", MailUrl, "mail"),
    Src("quote", "hello", ""), Src("raw", "alert(1)", "script"), Src("raw", "bold", "b") }

\* the sources of at most MaxLen tokens
RenderSources == UNION {[1..n -> SrcToks] : n \in 0..MaxLen}

InitRender ==
  /\ store = EmptyStore
  /\ nextId = 1
  /\ runs = << >>
  /\ site \in MainSites /\ site[FooUrl] = ConnErr
  /\ socketio = "none"
  /\ TESTING = FALSE
  /\ response = 0
  /\ ehtml = << >>
  /\ calls = << >>
  /\ md = << >> /\ now = 0 /\ rows = << >> /\ listed = << >>

\* msg.source = src; msg.render_markdown(): md holds the last call
RenderCall(src) ==
  /\ md' = << [source |-> src, html |-> render_markdown(src)] >>
  /\ UNCHANGED << store, nextId, runs, site, socketio, TESTING, response, ehtml, calls,
                  now, rows, listed >>

NextRender == \E src \in RenderSources : RenderCall(src)

SpecRender == InitRender /\ [][NextRender]_vars

(***************************************************************************)
(* The listing alone: the updated_at column of the messages table, the     *)
(* clock behind timestamp(), and get_messages.                             *)
(***************************************************************************)
\* rows of the table
MaxRows == 3
\* seconds the clock moves second by second
MaxSecs == 2

\* 24 * 60 * 60
Day == 24 * 60 * 60
\* timestamp() when the service starts: seconds since the epoch
T0 == 20000 * Day

InitList ==
  /\ store = EmptyStore
  /\ nextId = 1
  /\ runs = << >>
  /\ site \in MainSites /\ site[FooUrl] = ConnErr
  /\ socketio = "none"
  /\ TESTING = FALSE
  /\ response = 0
  /\ ehtml = << >>
  /\ calls = << >>
  /\ md = << >>
  /\ now = T0 /\ rows = << >> /\ listed = << >>

\* time passes: a second (at most MaxSecs of them within a day), or a day
Tick(dt) ==
  /\ ((now - T0) % Day) + (dt % Day) <= MaxSecs
  /\ now + dt <= T0 + Day + MaxSecs
  /\ now' = now + dt
  /\ listed' = << >>
  /\ UNCHANGED << store, nextId, runs, site, socketio, TESTING, response, ehtml, calls,
                  md, rows >>

\* an INSERT: updated_at defaults to timestamp()
InsertRow ==
  /\ Len(rows) < MaxRows
  /\ rows' = Append(rows, [id |-> Len(rows) + 1, updated_at |-> now])
  /\ listed' = << >>
  /\ UNCHANGED << store, nextId, runs, site, socketio, TESTING, response, ehtml, calls,
                  md, now >>

\* an UPDATE of row i: onupdate sets updated_at to timestamp()
UpdateRow(i) ==
  /\ rows[i].updated_at # now
  /\ rows' = [rows EXCEPT ![i].updated_at = now]
  /\ listed' = << >>
  /\ UNCHANGED << store, nextId, runs, site, socketio, TESTING, response, ehtml, calls,
                  md, now >>

\* the sequences that hold each id of ids once, ascending by updated_at
\* (ORDER BY leaves the order of rows with equal updated_at open)
OrderBy(ids) ==
  {q \in [1..Cardinality(ids) -> ids] :
     /\ \A a, b \in DOMAIN q : a # b => q[a] # q[b]
     /\ \A a, b \in DOMAIN q : a < b => rows[q[a]].updated_at <= rows[q[b]].updated_at}

\* the values of updated_since requests carry ("0" when it is absent)
Sinces ==
  {0, now - Day - 1, now - Day, now + 1} \cup {rows[i].updated_at : i \in DOMAIN rows}

get_messages_unclamped(S) ==
  /\ \E q \in OrderBy({i \in DOMAIN rows : rows[i].updated_at >= S}) :
       listed' = << [since |-> S, ids |-> q] >>
  /\ UNCHANGED << store, nextId, runs, site, socketio, TESTING, response, ehtml, calls,
                  md, now, rows >>

\* GET /api/messages?updated_since=S: listed holds the answer of the step
get_messages(S) ==
  LET day_ago == now - Day
      since == IF S < day_ago THEN day_ago ELSE S
  IN
  /\ \E q \in OrderBy({i \in DOMAIN rows : rows[i].updated_at >= since}) :
       listed' = << [since |-> S, ids |-> q] >>
  /\ UNCHANGED << store, nextId, runs, site, socketio, TESTING, response, ehtml, calls,
                  md, now, rows >>

NextList ==
  \/ \E dt \in {1, Day} : Tick(dt)
  \/ InsertRow
  \/ \E i \in DOMAIN rows : UpdateRow(i)
  \/ \E S \in Sinces : get_messages(S)

SpecList == InitList /\ [][NextList]_vars

(***************************************************************************)
(* Properties.  Helpers first: they read the recorded calls and runs and   *)
(* are written from the statements checked, not from the model above.      *)
(***************************************************************************)
\* the html carries a summary block
HasBlock(h) == \E i \in 1..Len(h) : h[i].tag = "blockquote"

\* what a call added behind the html it was given
Appended(c) == SubSeq(c.html, Len(c.before) + 1, Len(c.html))

\* the GET was answered with status 200
Succeeded(rv) == rv.kind = "resp" /\ rv.status = 200

\* the GET ended in a connection error or a status other than 200
Failed(rv) == rv.kind = "connerr" \/ (rv.kind = "resp" /\ rv.status # 200)

\* how many of the first i requests of a call were answered with 200
Successes(got, i) == Cardinality({j \in 1..i : Succeeded(got[j])})

\* the links whose request, among the requests made, was answered with 200
RECURSIVE OkLinks(_, _, _)
OkLinks(links, got, i) ==
  IF i > Len(got) THEN << >>
  ELSE IF Succeeded(got[i]) THEN << links[i] >> \o OkLinks(links, got, i + 1)
  ELSE OkLinks(links, got, i + 1)

Hrefs(blocks) == [i \in 1..Len(blocks) |-> blocks[i].href]

\* C3 as claimed: a second call of expand_links on the html a first call
\* left returns changed = false and leaves the html as it is, whatever the
\* sites do (stated for calls that return).
C3_Claim ==
  \A k \in 1..(Len(calls) - 1) :
    (calls[k].st = "ret" /\ calls[k + 1].st = "ret") =>
      /\ ~calls[k + 1].changed
      /\ calls[k + 1].html = calls[k].html

\* C3 as amended: a call that returns changed = true leaves a summary block
\* in the html; on html with a summary block the next call returns
\* changed = false, makes no request and leaves the html as it is; on html
\* with anchors and no summary block the next call requests the first anchor
\* again.
C3_Amended ==
  /\ \A k \in 1..Len(calls) : calls[k].changed => HasBlock(calls[k].html)
  /\ \A k \in 1..(Len(calls) - 1) :
       LET a == calls[k]
           b == calls[k + 1]
       IN  /\ b.before = a.html
           /\ HasBlock(a.html) =>
                b.st = "ret" /\ ~b.changed /\ b.html = a.html /\ b.got = << >>
           /\ (~HasBlock(a.html) /\ Anchors(a.html) # << >>) => Len(b.got) >= 1

\* a first call appended a block and, when the second call is made, the
\* site of the first anchor answers differently and with 200
C3_Witness ==
  /\ Len(calls) = 2
  /\ calls[1].changed
  /\ calls[2].site # calls[1].site
  /\ Succeeded(Get(Anchors(calls[1].before)[1], calls[2].site))

\* C4 as claimed: the blocks a call appends are one per anchor whose GET was
\* answered with 200, in the order of the anchors, behind the html as it was;
\* an anchor whose GET ended in a connection error or another status adds
\* nothing and the next anchor is requested after it.
C4_Claim ==
  \A k \in 1..Len(calls) :
    LET c == calls[k]
        links == Anchors(c.before)
    IN  HasBlock(c.before) \/
        /\ Len(c.html) >= Len(c.before)
        /\ SubSeq(c.html, 1, Len(c.before)) = c.before
        /\ \A j \in 1..Len(Appended(c)) : Appended(c)[j].tag = "blockquote"
        /\ Hrefs(Appended(c)) = OkLinks(links, c.got, 1)
        /\ \A i \in 1..Len(c.got) : (Failed(c.got[i]) /\ i < Len(links)) => Len(c.got) > i

\* the text of a <title>
TextOf(t) == IF t = NoString THEN "" ELSE t

\* the link text C10 states for a page fetched from url
WantTitle(page, url) ==
  IF page.titles = << >> THEN url ELSE Strip(TextOf(page.titles[1]))

\* the description C10 states for a page
WantDescription(page) ==
  LET hit == {i \in 1..Len(page.metas) :
                page.metas[i].name # NoAttr /\ Lower(page.metas[i].name) = "description"}
  IN  IF hit = {} THEN NoDescription
      ELSE LET m == page.metas[CHOOSE i \in hit : \A j \in hit : i <= j]
           IN  IF m.content = NoAttr THEN NoDescription ELSE Strip(m.content)

\* C10 as claimed: every page fetched with status 200 gets a summary block
\* whose href is the URL, whose link text is the trimmed text of the first
\* <title> (the URL without one) and whose description is the trimmed content
\* of the first <meta> named description in any case ('No description
\* found.' without one).
C10_Claim ==
  \A k \in 1..Len(calls) :
    LET c == calls[k]
        links == Anchors(c.before)
    IN  \A i \in 1..Len(c.got) :
          Succeeded(c.got[i]) =>
            LET n == Successes(c.got, i) IN
            /\ n <= Len(Appended(c))
            /\ Appended(c)[n] = Block(links[i], WantTitle(c.got[i].page, links[i]),
                                      WantDescription(c.got[i].page))

\* the emit calls of one commit that calls the hook
PerCommit == IF socketio = "none" THEN 0 ELSE 1

\* C1 as claimed: with a transport, the flow of a request (the request and
\* its run, run to the end) emits 2 notifications when the run appended a
\* summary block and 1 when it did not.
C1_Claim ==
  \A i \in 1..Len(runs) :
    (socketio = "up" /\ runs[i].pc = "done") =>
      runs[i].reqEmits + runs[i].emits = IF runs[i].changed THEN 2 ELSE 1

\* C1 as amended: the run calls emit once in the commit of the rendered html
\* and once more in the commit of the enriched html, which it reaches iff
\* expand_links returned true; a run ended by an exception emits nothing
\* after it; a create request emits nothing itself, an edit request that
\* sets source emits once in its own commit, before its run; without a
\* transport nothing is emitted.
C1_Amended ==
  \A i \in 1..Len(runs) :
    LET r == runs[i] IN
    /\ r.reqEmits = IF r.kind = "edit" THEN PerCommit ELSE 0
    /\ r.pc \in {"start", "render", "noop"} => r.emits = 0
    /\ r.pc \in {"expand", "hung", "commit2"} => r.emits = PerCommit
    /\ r.pc = "done" => r.emits = IF r.changed THEN 2 * PerCommit ELSE PerCommit
    /\ r.pc = "raised" =>
         r.emits = IF r.err = "StaleDataError" /\ ~r.changed THEN 0 ELSE PerCommit
    /\ r.changed => r.pc \in {"commit2", "done", "raised", "hung"}

\* an edit that set source, with a transport, whose run appended a block:
\* three notifications
C1_Witness ==
  \E i \in 1..Len(runs) :
    /\ socketio = "up" /\ runs[i].kind = "edit" /\ runs[i].pc = "done" /\ runs[i].changed
    /\ runs[i].reqEmits + runs[i].emits = 3

\* C2 as claimed: a run on a message whose html already has a summary block
\* makes no request and writes nothing.
C2_Claim ==
  \A i \in 1..Len(runs) :
    (runs[i].enriched0 /\ Finished(runs[i])) => (runs[i].fetches = 0 /\ runs[i].writes = 0)

\* the site refuses the connection or never answers
NetworkFailure == site[FooUrl].kind \in {"connerr", "hang"}

\* C5 as claimed: when the GET of a link fails at the network (refused, or
\* no answer in time), the link is skipped: the run is not held up, no block
\* is appended, and no exception of that GET leaves expand_links.
C5_Claim ==
  \A i \in 1..Len(runs) :
    (NetworkFailure /\ runs[i].fetches > 0) =>
      /\ runs[i].pc # "hung"
      /\ ~runs[i].changed
      /\ runs[i].err = "fetch" => \E l \in 1..Len(runs[i].html) :
                                     runs[i].html[l].tag = "a" /\ runs[i].html[l].href \notin HttpUrls

\* C6 as claimed: every run that was started ends.
C6_Claim ==
  \A i \in 1..MaxRuns :
    (i <= Len(runs)) ~> (i <= Len(runs) /\ Finished(runs[i]))

\* every run has ended
AllFinished == runs # << >> /\ \A i \in 1..Len(runs) : Finished(runs[i])

\* the html of a row with source src after a request and its inline run
InlineHtml(src) ==
  LET h == render_markdown(src)
      e == expand_links(h, site)
  IN  IF EmitRaises(socketio) THEN Placeholder
      ELSE IF e.st = "ret" /\ e.changed THEN e.html ELSE h

\* C7 as claimed: in either mode, once every run has ended, each message has
\* the html that inline execution of the same requests leaves, and each run
\* has rendered, and notified about, the source of its own request.
C7_Claim ==
  AllFinished =>
    /\ \A m \in MsgIds : store[m].live => store[m].html = InlineHtml(store[m].source)
    /\ \A i \in 1..Len(runs) : runs[i].pc # "noop" => runs[i].source = runs[i].req

\* C8 as claimed: no run is ended by an exception of emit, and a commit whose
\* hook called emit is not rolled back: the row no longer has the
\* placeholder.
C8_Claim ==
  \A i \in 1..Len(runs) :
    /\ runs[i].err # "emit"
    /\ (runs[i].emits > 0 /\ store[runs[i].id].live) => store[runs[i].id].html # Placeholder

\* C9: a run whose message is gone when it starts returns at once: it ends
\* without an exception, requests nothing, writes nothing, emits nothing and
\* leaves the store as it is; it does nothing afterwards.
C9_NoOp ==
  /\ [](\A i \in 1..Len(runs) :
          runs[i].pc = "noop" =>
            /\ runs[i].err = "" /\ runs[i].fetches = 0
            /\ runs[i].writes = 0 /\ runs[i].emits = 0)
  /\ [][\A i \in 1..Len(runs) :
          /\ (runs[i].pc = "start" /\ ~store[runs[i].id].live /\ runs'[i] # runs[i]) =>
               (runs'[i].pc = "noop" /\ store' = store)
          /\ runs[i].pc = "noop" => runs'[i] = runs[i]]_vars

\* a run found its message gone
C9_Witness == \E i \in 1..Len(runs) : runs[i].pc = "noop"

\* C11 as claimed: the html render_markdown produces has no tag outside the
\* allow-list, and every <a> in it carries rel="nofollow".
C11_Claim ==
  \A c \in 1..Len(md) : \A k \in 1..Len(md[c].html) :
    LET t == md[c].html[k] IN
    /\ t.tag \in allowed_tags \cup {"#text"}
    /\ t.tag = "a" => t.rel = "nofollow"

\* C11 as amended: the html has no tag outside the allow-list; an element
\* with a disallowed tag is replaced by its text, an element with an allowed
\* tag is kept; every <a> carries rel="nofollow" unless its href starts with
\* mailto:, and a mailto: anchor written in the source carries no rel.
C11_Amended ==
  \A c \in 1..Len(md) :
    /\ Len(md[c].html) = Len(md[c].source)
    /\ \A k \in 1..Len(md[c].html) :
         LET t == md[c].html[k]
             s == md[c].source[k]
         IN
         /\ t.tag \in allowed_tags \cup {"#text"}
         /\ t.text = s.v \/ (s.k = "link" /\ t.text = s.t)
         /\ s.k \in {"quote", "text"} \/ (s.k = "raw" /\ s.t \notin allowed_tags)
              => t.tag = "#text"
         /\ s.k = "raw" /\ s.t \in allowed_tags => t.tag = s.t
         /\ s.k \in {"url", "domain", "link"} => t.tag = "a"
         /\ t.tag = "a" => t.rel = (IF IsMailto(t.href) THEN "" ELSE "nofollow")

\* a source with a <script> element, a bare URL and a mailto: link was
\* rendered
C11_Witness ==
  \E c \in 1..Len(md) :
    /\ \E k \in 1..Len(md[c].source) : md[c].source[k].t = "script"
    /\ \E k \in 1..Len(md[c].html) : md[c].html[k].tag = "a" /\ md[c].html[k].rel = "nofollow"
    /\ \E k \in 1..Len(md[c].html) : md[c].html[k].tag = "a" /\ IsMailto(md[c].html[k].href)

\* C12: a PUT answered 403 (the user is not the author of the message)
\* changes no message, starts no run and emits nothing (the emit calls are
\* recorded in the runs); and no step changes the user_id of a message.
C12_Rejected ==
  /\ [][response' = 403 =>
          /\ store' = store /\ runs' = runs /\ nextId' = nextId
          /\ \E m \in MsgIds : store[m].live /\ store[m].user_id \in Authors]_vars
  /\ [][\A m \in MsgIds :
          (store[m].live /\ store'[m].live) => store'[m].user_id = store[m].user_id]_vars

\* a PUT on an existing message was answered 403
C12_Witness ==
  /\ response = 403
  /\ \E m \in MsgIds : store[m].live /\ store[m].html # Placeholder

\* C13: a POST answered 400 (the body has no 'source') stores no message,
\* starts no run and emits nothing.
C13_Rejected ==
  [][response' = 400 => (store' = store /\ nextId' = nextId /\ runs' = runs)]_vars

\* a POST was answered 400 while the table holds a message
C13_Witness == response = 400 /\ nextId = 2

\* the larger of two numbers
Max(a, b) == IF a >= b THEN a ELSE b

\* C14: the answer to GET /api/messages?updated_since=S holds exactly the
\* rows with updated_at >= max(S, now - 24h), each once, ascending by
\* updated_at; with S = 0 (the default) it holds exactly the rows updated
\* in the last day, and never a row updated more than a day ago.
C14_Listing ==
  \A k \in 1..Len(listed) :
    LET l == listed[k]
        ids == {l.ids[a] : a \in DOMAIN l.ids}
    IN
    /\ ids = {i \in DOMAIN rows : rows[i].updated_at >= Max(l.since, now - 24 * 60 * 60)}
    /\ Len(l.ids) = Cardinality(ids)
    /\ \A a \in 1..(Len(l.ids) - 1) : rows[l.ids[a]].updated_at <= rows[l.ids[a + 1]].updated_at
    /\ \A i \in ids : now - rows[i].updated_at <= 24 * 60 * 60
    /\ l.since = 0 => ids = {i \in DOMAIN rows : now - rows[i].updated_at <= 24 * 60 * 60}

\* a listing without updated_since answered two rows in the order of their
\* updates, which is not the order of their ids, and left out a row updated
\* more than a day ago
C14_Witness ==
  \E k \in 1..Len(listed) :
    /\ listed[k].since = 0
    /\ Len(rows) = 3
    /\ Len(listed[k].ids) = 2
    /\ listed[k].ids[1] > listed[k].ids[2]
    /\ rows[listed[k].ids[1]].updated_at < rows[listed[k].ids[2]].updated_at

\* h is rendered html (or any html) followed by zero or more summary blocks
Extends(html, h) ==
  /\ Len(html) >= Len(h)
  /\ SubSeq(html, 1, Len(h)) = h
  /\ \A k \in (Len(h) + 1)..Len(html) : html[k].tag = "blockquote"

\* C15 as claimed: the html of every message is the placeholder (created),
\* the rendering of its current source (rendered), or that rendering
\* followed by summary blocks (enriched).
C15_Claim ==
  \A m \in MsgIds :
    store[m].live =>
      \/ store[m].html = Placeholder
      \/ Extends(store[m].html, render_markdown(store[m].source))

\* the run has read the html it enriches
HasRead(r) == r.pc \in {"commit2", "done", "hung"} \/ (r.pc = "raised" /\ r.err = "fetch")

\* C16 as claimed: the html a run's enrichment step reads and extends is the
\* rendering the same run has just persisted, also when runs overlap.
C16_Claim ==
  \A i \in 1..Len(runs) :
    HasRead(runs[i]) => Extends(runs[i].html, render_markdown(runs[i].source))

\* C17 as claimed: once the runs of overlapping requests have all ended
\* (none of them by an exception), the html of every message is the
\* rendering, plus enrichment, of the source the last edit wrote.
C17_Claim ==
  (AllFinished /\ \A i \in 1..Len(runs) : runs[i].err = "") =>
    \A m \in MsgIds :
      store[m].live => Extends(store[m].html, render_markdown(store[m].source))

\* the summary blocks of html
RECURSIVE BlocksOf(_, _)
BlocksOf(html, k) ==
  IF k > Len(html) THEN << >>
  ELSE IF html[k].tag = "blockquote" THEN << html[k].href >> \o BlocksOf(html, k + 1)
  ELSE BlocksOf(html, k + 1)

\* how often u occurs in the sequence q
Count(q, u) == Cardinality({k \in 1..Len(q) : q[k] = u})

\* no URL has more summary blocks in html than anchors
NoDuplicate(html) ==
  LET b == BlocksOf(html, 1)
      a == Anchors(html)
  IN  \A k \in 1..Len(b) : Count(b, b[k]) <= Count(a, b[k])

\* C18: the html of a message, and the html a run is about to write, never
\* has more than one summary block per anchor.
C18_NoDuplicate ==
  /\ \A m \in MsgIds : store[m].live => NoDuplicate(store[m].html)
  /\ \A i \in 1..Len(runs) : NoDuplicate(runs[i].html)

\* two overlapping runs for the same message each appended a block and
\* wrote it: the message has one block
C18_Witness ==
  /\ Len(runs) = 2
  /\ runs[1].id = runs[2].id
  /\ runs[1].pc = "done" /\ runs[1].changed
  /\ runs[2].pc = "done" /\ runs[2].changed
  /\ store[runs[1].id].live
  /\ Len(BlocksOf(store[runs[1].id].html, 1)) = 1

\* every message has at most one run
OneRunEach == \A i, j \in 1..Len(runs) : i # j => runs[i].id # runs[j].id

\* C20: a step of a run changes no row but the one of its message and no
\* other run; and when every message has one run, once the runs have ended
\* each message has the html its run leaves when it runs alone, and each run
\* has rendered the source of its own message.
C20_Independent ==
  /\ [][\A i \in 1..Len(runs) :
          runs'[i] # runs[i] =>
            /\ \A m \in MsgIds : m # runs[i].id => store'[m] = store[m]
            /\ \A j \in 1..Len(runs) : j # i => runs'[j] = runs[j]]_vars
  /\ []((AllFinished /\ OneRunEach) =>
          /\ \A m \in MsgIds :
               store[m].live => store[m].html = InlineHtml(store[m].source)
          /\ \A i \in 1..Len(runs) :
               runs[i].pc # "noop" => runs[i].source = store[runs[i].id].source
                                       \/ ~store[runs[i].id].live)

\* the runs of two different messages are under way at the same time
C20_Witness ==
  /\ Len(runs) = 2
  /\ runs[1].id # runs[2].id
  /\ runs[1].pc = "commit2"
  /\ runs[2].pc = "expand"

\* the text has characters a browser reads as markup ('<' ... '>'),
\* tabulated on the texts pages carry
IsMarkup(text) == text \in {"<script>alert(1)</script>", "<img src=x onerror=alert(1)>"}

\* C19 as claimed: text taken from a fetched page (title, description) never
\* puts markup into html: no summary block holds, unescaped, text that
\* reads as markup.
C19_Claim ==
  \A k \in 1..Len(calls) : \A j \in 1..Len(calls[k].html) :
    LET t == calls[k].html[j] IN
    t.tag = "blockquote" => (~IsMarkup(t.text) /\ ~IsMarkup(t.desc))

====
